---- MODULE Spec2Model ----
(***************************************************************************)
(* Model of the errchain analyzer (src/errchain/errtext.go): the walker    *)
(* over declarations and call expressions, the message evaluation, the     *)
(* prefix parser, the prefix matcher and the prefix recommender.           *)
(*                                                                         *)
(* Go strings are TLA+ strings; TLC evaluates Len, \o and SubSeq on them,  *)
(* so parsing works on the characters of the message.                      *)
(***************************************************************************)
EXTENDS Integers, Sequences, FiniteSets, TLC

\* Largest number of dot-separated components of a drawn message prefix.
MaxComponents == 4

---------------------------------------------------------------------------
(* Library functions the analyzer calls (strings, go/token, go/ast, fmt).  *)

Min(S) == CHOOSE x \in S : \A y \in S : x <= y

\* the i-th character (1-based) of s, as a string of length 1
Char(s, i) == SubSeq(s, i, i)

HasPrefix(s, p) == Len(s) >= Len(p) /\ SubSeq(s, 1, Len(p)) = p

HasSuffix(s, p) == Len(s) >= Len(p) /\ SubSeq(s, Len(s) - Len(p) + 1, Len(s)) = p

\* strings.Index: the 0-based index of the first occurrence of sep, or -1
MinOr(hits, none) == IF hits = {} THEN none ELSE Min(hits)

Index(s, sep) ==
    MinOr({i \in 0..(Len(s) - Len(sep)) : SubSeq(s, i + 1, i + Len(sep)) = sep}, -1)

Contains(s, sub) == Index(s, sub) >= 0

\* strings.SplitN for a non-empty sep: at most n substrings, the last one
\* the unsplit remainder; n < 0 means no limit
RECURSIVE SplitN(_, _, _)
SplitAt(s, sep, n, i) ==
    IF n = 1 \/ i < 0
    THEN <<s>>
    ELSE <<SubSeq(s, 1, i)>> \o SplitN(SubSeq(s, i + Len(sep) + 1, Len(s)), sep, n - 1)

SplitN(s, sep, n) == IF n = 0 THEN <<>> ELSE SplitAt(s, sep, n, Index(s, sep))

UpperLetters == {"A","B","C","D","E","F","G","H","I","J","K","L","M",
                 "N","O","P","Q","R","S","T","U","V","W","X","Y","Z"}

LowerLetters == {"a","b","c","d","e","f","g","h","i","j","k","l","m",
                 "n","o","p","q","r","s","t","u","v","w","x","y","z"}

Digits == {"0","1","2","3","4","5","6","7","8","9"}

Keywords == {"break", "case", "chan", "const", "continue", "default", "defer",
             "else", "fallthrough", "for", "func", "go", "goto", "if", "import",
             "interface", "map", "package", "range", "return", "select",
             "struct", "switch", "type", "var"}

\* token.IsIdentifier: non-empty, not a keyword, letters, digits and "_",
\* the first character not a digit
IsIdentifier(name) ==
    /\ name # ""
    /\ name \notin Keywords
    /\ \A i \in 1..Len(name) :
          \/ Char(name, i) \in UpperLetters \cup LowerLetters
          \/ Char(name, i) = "_"
          \/ i > 1 /\ Char(name, i) \in Digits

\* ast.IsExported: the name begins with an upper-case letter
IsExported(name) == name # "" /\ Char(name, 1) \in UpperLetters

ToLowerChar(c) ==
    CASE c = "A" -> "a" [] c = "B" -> "b" [] c = "C" -> "c" [] c = "D" -> "d"
      [] c = "E" -> "e" [] c = "F" -> "f" [] c = "G" -> "g" [] c = "H" -> "h"
      [] c = "I" -> "i" [] c = "J" -> "j" [] c = "K" -> "k" [] c = "L" -> "l"
      [] c = "M" -> "m" [] c = "N" -> "n" [] c = "O" -> "o" [] c = "P" -> "p"
      [] c = "Q" -> "q" [] c = "R" -> "r" [] c = "S" -> "s" [] c = "T" -> "t"
      [] c = "U" -> "u" [] c = "V" -> "v" [] c = "W" -> "w" [] c = "X" -> "x"
      [] c = "Y" -> "y" [] c = "Z" -> "z" [] OTHER -> c

RECURSIVE ToLower(_)
ToLower(s) == IF s = "" THEN "" ELSE ToLowerChar(Char(s, 1)) \o ToLower(SubSeq(s, 2, Len(s)))

\* strconv.Quote for printable ASCII: double quotes around s, with the
\* characters " and \ escaped
RECURSIVE QuoteBody(_)
QuoteBody(s) ==
    IF s = "" THEN ""
    ELSE LET c == Char(s, 1)
         IN  (IF c = "\"" \/ c = "\\" THEN "\\" \o c ELSE c) \o QuoteBody(SubSeq(s, 2, Len(s)))

Quote(s) == "\"" \o QuoteBody(s) \o "\""

---------------------------------------------------------------------------
(* Values of the analyzer.                                                 *)

diagnosticMessage == "Error message must point to the place where it had happened"

errNoPrefix         == "no prefix found"
errPackageMismatch  == "package name mismatch"
errPrefixDuplicate  == "prefix duplicate"
errInvalidSyntax    == "syntax is wrong"
errFuncNotFound     == "neither func nor struct has been found"
errMethodNotFound   == "method not found"
errRecieverNotFound == "reciever not found"
errNoPointer        == "reciever has no pointer"

\* the nil error of parsePrefix
NoErr == "<nil>"

\* var debug, set at link time: "" unless built with -X ...errchain.debug=1
DebugValues == {"", "1"}

isDebug(dbg) == dbg # ""

\* type location
location(pkg, recv, fn, isRecvPtr) ==
    [pkg |-> pkg, recv |-> recv, fn |-> fn, isRecvPtr |-> isRecvPtr]

\* a *prefixError; unreachable marks the value returned by the tail of
\* location.match that the source comments as unreachable
prefixError(errType, got, expect, parsedPrefix) ==
    [isNil |-> FALSE, errType |-> errType, got |-> got, expect |-> expect,
     parsedPrefix |-> parsedPrefix, unreachable |-> FALSE]

nilPrefixError(unreachable) ==
    [isNil |-> TRUE, errType |-> "", got |-> "", expect |-> "",
     parsedPrefix |-> location("", "", "", FALSE), unreachable |-> unreachable]

---------------------------------------------------------------------------
(* The prefix parser.                                                      *)

\* the assignments of the switch over len(split)
splitLocation(split) ==
    CASE Len(split) = 1 -> location(split[1], "", "", FALSE)
      [] Len(split) = 2 -> location(split[1], "", split[2], FALSE)
      [] OTHER          -> location(split[1], split[2], split[3], FALSE)

\* the checks after the switch: receiver and function tokens must be
\* identifiers; then the pointer marker is stripped from the receiver
checkLocation(loc) ==
    IF loc.recv # "" /\ ~IsIdentifier(loc.recv)
    THEN [loc |-> loc, err |-> errInvalidSyntax]
    ELSE IF loc.fn # "" /\ ~IsIdentifier(loc.fn)
    THEN [loc |-> loc, err |-> errInvalidSyntax]
    ELSE IF HasPrefix(loc.recv, "(*")
    THEN IF HasSuffix(SubSeq(loc.recv, 3, Len(loc.recv)), ")")
         THEN [loc |-> location(loc.pkg, SubSeq(loc.recv, 3, Len(loc.recv) - 1), loc.fn, TRUE),
               err |-> NoErr]
         ELSE [loc |-> location(loc.pkg, SubSeq(loc.recv, 3, Len(loc.recv)), loc.fn, FALSE),
               err |-> errInvalidSyntax]
    ELSE [loc |-> loc, err |-> NoErr]

\* the switch over len(split): more than three parts is a syntax error
parseSplit(split) ==
    IF Len(split) > 3
    THEN [loc |-> splitLocation(split), err |-> errInvalidSyntax]
    ELSE checkLocation(splitLocation(split))

\* i is strings.Index(errorMessage, ": ")
parseAt(errorMessage, i) ==
    IF i < 0
    THEN [loc |-> location("", "", "", FALSE), err |-> errNoPrefix]
    ELSE parseSplit(SplitN(SubSeq(errorMessage, 1, i), ".", 4))

parsePrefix(errorMessage) == parseAt(errorMessage, Index(errorMessage, ": "))

---------------------------------------------------------------------------
(* Declarations: a *types.Package is [name, path]; an *ast.FuncDecl is     *)
(* [kind, Name, hasBody, Recv, Results].  Recv is [present, star, ident,   *)
(* name]: whether there is a receiver, whether its type is *X, whether the *)
(* (starred) type is a plain identifier, and that identifier.  Results is  *)
(* the list of result types, each [ident, name].                           *)

\* faulty variant of recvString: the receiver's type name is not read
recvString_noName(fn) ==
    [recieverName |-> "", isPointer |-> fn.Recv.present /\ fn.Recv.star]

recvString(fn) ==
    IF ~fn.Recv.present
    THEN [recieverName |-> "", isPointer |-> FALSE]
    ELSE IF fn.Recv.ident
    THEN [recieverName |-> fn.Recv.name, isPointer |-> fn.Recv.star]
    ELSE [recieverName |-> "", isPointer |-> FALSE]

isReturnsError(funcDecl) ==
    LET list == funcDecl.Results
    IN  /\ Len(list) > 0
        /\ list[Len(list)].ident
        /\ list[Len(list)].name = "error"

\* faulty variant of errorPrefixes: the list without the bare type prefix
errorPrefixes_noTypePrefix(pkg, fn) ==
    IF ~fn.Recv.present
    THEN <<pkg.name \o ": ", pkg.name \o "." \o fn.Name \o ": ">>
    ELSE IF ~fn.Recv.ident
    THEN <<>>
    ELSE IF fn.Recv.star
    THEN <<pkg.name \o ": ",
           pkg.name \o "." \o fn.Recv.name \o "." \o fn.Name \o ": ",
           pkg.name \o ".(*" \o fn.Recv.name \o ")." \o fn.Name \o ": ">>
    ELSE <<pkg.name \o ": ",
           pkg.name \o "." \o fn.Recv.name \o "." \o fn.Name \o ": ">>

errorPrefixes(pkg, fn) ==
    IF ~fn.Recv.present
    THEN <<pkg.name \o ": ", pkg.name \o "." \o fn.Name \o ": ">>
    ELSE IF ~fn.Recv.ident
    THEN <<>>
    ELSE IF fn.Recv.star
    THEN <<pkg.name \o ": ",
           pkg.name \o "." \o fn.Recv.name \o "." \o fn.Name \o ": ",
           pkg.name \o ".(*" \o fn.Recv.name \o ")." \o fn.Name \o ": ",
           pkg.name \o "." \o fn.Recv.name \o ": ">>
    ELSE <<pkg.name \o ": ",
           pkg.name \o "." \o fn.Recv.name \o "." \o fn.Name \o ": ",
           pkg.name \o "." \o fn.Recv.name \o ": ">>

RECURSIVE joinQuoted(_, _)
joinQuoted(prefixes, i) ==
    IF i > Len(prefixes) THEN ""
    ELSE (IF i > 1 THEN ", " ELSE "") \o Quote(prefixes[i]) \o joinQuoted(prefixes, i + 1)

generatePrefixRecomendations(pkg, parentFunc) ==
    "Consider starting message with one of the following strings: "
        \o joinQuoted(errorPrefixes(pkg, parentFunc), 1)

---------------------------------------------------------------------------
(* The prefix matcher.                                                     *)

\* faulty variant of packageMismatch: the token is compared with the package's name
packageMismatch_byName(loc, pkg) == loc.pkg # pkg.name

\* the package check: the import path does not end with the package token
packageMismatch(loc, pkg) == ~HasSuffix(pkg.path, loc.pkg)

\* faulty variant of noPointer: a pointer receiver requires the marker
noPointer_missingMarker(loc, isRecieverPointer) == ~loc.isRecvPtr /\ isRecieverPointer

\* the pointer check, made once receiver and function both match
noPointer(loc, isRecieverPointer) == loc.isRecvPtr /\ ~isRecieverPointer

match(loc, pkg, fn) ==
    LET recieverName      == recvString(fn).recieverName
        isRecieverPointer == recvString(fn).isPointer
        functionName      == fn.Name
    IN  IF loc.pkg = ""
        THEN prefixError(errNoPrefix, loc.pkg, pkg.name, loc)
        ELSE IF packageMismatch(loc, pkg)
        THEN prefixError(errPackageMismatch, loc.pkg, pkg.name, loc)
        ELSE IF loc.recv = "" /\ loc.fn = ""
        THEN nilPrefixError(FALSE)
        ELSE IF loc.recv = "" /\ loc.fn # ""
        THEN IF loc.fn = recieverName THEN nilPrefixError(FALSE)
             ELSE IF loc.fn = functionName THEN nilPrefixError(FALSE)
             ELSE prefixError(errFuncNotFound, loc.fn,
                              functionName \o " or " \o recieverName, loc)
        ELSE IF loc.recv # "" /\ loc.fn # ""
        THEN IF loc.recv = recieverName /\ loc.fn # functionName
             THEN prefixError(errMethodNotFound, loc.fn, functionName, loc)
             ELSE IF loc.recv # recieverName /\ loc.fn = functionName
             THEN prefixError(errRecieverNotFound, loc.recv, recieverName, loc)
             ELSE IF loc.recv # recieverName /\ loc.fn # functionName
             THEN prefixError(errMethodNotFound, loc.recv \o "." \o loc.fn,
                              recieverName \o "." \o functionName, loc)
             ELSE IF noPointer(loc, isRecieverPointer)
             THEN prefixError(errNoPointer, "(*" \o loc.recv \o ")", recieverName, loc)
             ELSE nilPrefixError(FALSE)
        ELSE nilPrefixError(TRUE)

---------------------------------------------------------------------------
(* The message evaluation.  A call argument is [expr, Value]: its syntax   *)
(* tree and the constant value the type checker recorded for it, Value =   *)
(* [known, kind, val] with val the value as %v prints it.                  *)

exprNode(kind, name, X, Sel) == [kind |-> kind, Name |-> name, X |-> X, Sel |-> Sel]

Ident(name) == exprNode("Ident", name, <<>>, <<>>)

BasicLit(value) == exprNode("BasicLit", value, <<>>, <<>>)

SelectorExpr(X, Sel) == exprNode("SelectorExpr", "", <<X>>, <<Sel>>)

\* the shapes drawn here: BasicLit, Ident, SelectorExpr; any other shape
\* takes the default branch
RECURSIVE exprString(_, _)
exprString(expr, depth) ==
    IF depth > 2 THEN "?"
    ELSE CASE expr.kind = "BasicLit" -> expr.Name
           [] expr.kind = "Ident"    -> expr.Name
           [] expr.kind = "SelectorExpr" ->
                LET a == exprString(expr.X[1], depth + 1)
                    b == exprString(expr.Sel[1], depth + 1)
                IN  IF a = "?" \/ b = "?" THEN "?" ELSE a \o "." \o b
           [] OTHER -> "?"

constantValue(arg) == [v |-> arg.Value, ok |-> arg.Value.known]

constantValueString(arg) ==
    IF ~constantValue(arg).ok
    THEN [str |-> "", ok |-> FALSE]
    ELSE IF arg.Value.kind = "String"
    THEN [str |-> arg.Value.val, ok |-> TRUE]
    ELSE [str |-> "", ok |-> FALSE]

\* printableExpr.Format: the same text whatever the verb
Format(arg) ==
    IF ~constantValue(arg).ok
    THEN "{" \o exprString(arg.expr, 0) \o "}"
    ELSE arg.Value.val

RECURSIVE extraArgs(_, _)
extraArgs(a, i) ==
    IF i > Len(a) THEN ""
    ELSE (IF i > 1 THEN ", " ELSE "") \o "errchain.printableExpr=" \o Format(a[i])
            \o extraArgs(a, i + 1)

\* fmt.Sprintf over printableExpr operands, for verbs written as "%" and
\* one character (no flags, width or argument index)
RECURSIVE Sprintf(_, _)
\* i is the index of the next "%" of format
SprintfAt(format, a, i) ==
    IF i < 0
    THEN format \o (IF Len(a) = 0 THEN "" ELSE "%!(EXTRA " \o extraArgs(a, 1) \o ")")
    ELSE IF i + 1 = Len(format)
    THEN SubSeq(format, 1, i) \o "%!(NOVERB)" \o Sprintf("", a)
    ELSE IF Char(format, i + 2) = "%"
    THEN SubSeq(format, 1, i) \o "%" \o Sprintf(SubSeq(format, i + 3, Len(format)), a)
    ELSE IF Len(a) = 0
    THEN SubSeq(format, 1, i) \o "%!" \o Char(format, i + 2) \o "(MISSING)"
            \o Sprintf(SubSeq(format, i + 3, Len(format)), a)
    ELSE SubSeq(format, 1, i) \o Format(a[1])
            \o Sprintf(SubSeq(format, i + 3, Len(format)), Tail(a))

Sprintf(format, a) == SprintfAt(format, a, Index(format, "%"))

---------------------------------------------------------------------------
(* The walker and the reporter.                                            *)

IsMainLike(p) == p.name = "main"

isGenerated(f) ==
    \E i \in 1..Len(f.Comments) :
        \/ Contains(f.Comments[i], "DO NOT EDIT")
        \/ Contains(ToLower(f.Comments[i]), " generated by ")

isTest(f) == f.inFset /\ HasSuffix(f.name, "_test.go")

\* faulty variant of reportMsg: the switch without the errNoPrefix case
reportMsg_kindOnly(err, p, parentFunc) == diagnosticMessage \o ": " \o err.errType

\* the text the report closure builds for err
reportMsg(err, p, parentFunc) ==
    IF err.errType = errNoPrefix
    THEN diagnosticMessage \o ": " \o generatePrefixRecomendations(p, parentFunc)
    ELSE diagnosticMessage \o ": " \o err.errType

\* pass.Reportf(node.Pos(), msg): the diagnostic at the node's position; msg
\* is handed over as the format, with no operands
Reportf(n, msg) == [node |-> n, msg |-> Sprintf(msg, <<>>)]

bareError(errType) == prefixError(errType, "", "", location("", "", "", FALSE))

\* What one invocation of handleFuncBody did: whether the node is a call it
\* checks, the evaluated message, what parsePrefix returned (err, prefix),
\* whether location.match was called and what it returned (m), the errors
\* handed to the report closure, in order, and whether the invocation
\* panicked.
handled(checked, errorMessage, err, prefix, matchCalled, m, reports, panics) ==
    [checked |-> checked, errorMessage |-> errorMessage, err |-> err, prefix |-> prefix,
     matchCalled |-> matchCalled, m |-> m, reports |-> reports, panics |-> panics]

notChecked ==
    handled(FALSE, "", NoErr, location("", "", "", FALSE), FALSE, nilPrefixError(FALSE),
            <<>>, FALSE)

\* faulty variant of onInvalidSyntax: the two reports the other way round
onInvalidSyntax_swapped(m) ==
    IF m.isNil THEN <<bareError(errNoPrefix)>> ELSE <<bareError(errInvalidSyntax)>>

\* case errInvalidSyntax: the errors reported for what match said of the
\* partial location
onInvalidSyntax(m) ==
    IF m.isNil THEN <<bareError(errInvalidSyntax)>> ELSE <<bareError(errNoPrefix)>>

\* the final call of match: report exactly a mismatch
onParsed(m) == IF ~m.isNil THEN <<m>> ELSE <<>>

\* the checks that make handleFuncBody return before it evaluates a message
isCheckedCall(n) ==
    /\ n.kind = "CallExpr"
    /\ Len(n.Args) > 0
    /\ n.callName \in {"errors.New", "fmt.Errorf"}
    /\ constantValueString(n.Args[1]).ok

\* the rest of handleFuncBody once the message is parsed and matched; match
\* is called in the errInvalidSyntax case and after the switch, not in the
\* errNoPrefix case; in a debug build the tail of match panics
handleMatched(dbg, errorMessage, parsed, m) ==
    IF parsed.err = errNoPrefix
    THEN handled(TRUE, errorMessage, parsed.err, parsed.loc, FALSE, nilPrefixError(FALSE),
                 <<bareError(errNoPrefix)>>, FALSE)
    ELSE IF parsed.err = errInvalidSyntax
    THEN IF m.unreachable /\ isDebug(dbg)
         THEN handled(TRUE, errorMessage, parsed.err, parsed.loc, TRUE, m, <<>>, TRUE)
         ELSE handled(TRUE, errorMessage, parsed.err, parsed.loc, TRUE, m,
                      onInvalidSyntax(m), FALSE)
    ELSE IF parsed.err # NoErr /\ isDebug(dbg)
    THEN handled(TRUE, errorMessage, parsed.err, parsed.loc, FALSE, nilPrefixError(FALSE),
                 <<>>, TRUE)
    ELSE IF m.unreachable /\ isDebug(dbg)
    THEN handled(TRUE, errorMessage, parsed.err, parsed.loc, TRUE, m, <<>>, TRUE)
    ELSE handled(TRUE, errorMessage, parsed.err, parsed.loc, TRUE, m, onParsed(m), FALSE)

\* prefix, err := parsePrefix(errorMessage), then prefix.match(pass.Pkg, parentFunc)
handleParsed(p, parentFunc, dbg, errorMessage, parsed) ==
    handleMatched(dbg, errorMessage, parsed, match(parsed.loc, p, parentFunc))

handleMessage(p, parentFunc, dbg, errorMessage) ==
    handleParsed(p, parentFunc, dbg, errorMessage, parsePrefix(errorMessage))

\* errorMessage := fmt.Sprintf(format, formatArgs...), each operand after
\* the format wrapped in a printableExpr
handleFuncBody(p, parentFunc, n, dbg) ==
    IF ~isCheckedCall(n) THEN notChecked
    ELSE handleMessage(p, parentFunc, dbg,
                       Sprintf(constantValueString(n.Args[1]).str, Tail(n.Args)))

\* faulty variant of inspectsBody: the name is not required to be exported
inspectsBody_anyName(funcDecl) ==
    /\ funcDecl.hasBody
    /\ isReturnsError(funcDecl)

\* handleFuncDecl's conditions for inspecting the body
inspectsBody(funcDecl) ==
    /\ funcDecl.hasBody
    /\ IsExported(funcDecl.Name)
    /\ isReturnsError(funcDecl)

---------------------------------------------------------------------------
(* The inputs: packages, files, declarations and the nodes of a body.      *)

Package(name, path) == [name |-> name, path |-> path]

Packages == {Package("aaa", "m/aaa"), Package("aaa", "m/aaa/v2"), Package("main", "m/cmd")}

File(name, Comments) == [name |-> name, Comments |-> Comments, inFset |-> TRUE]

Files == {File("aaa.go", <<"// Package aaa is a fixture">>),
          File("aaa_test.go", <<>>),
          File("zz_gen.go", <<"// Code generated by stringer. DO NOT EDIT.">>),
          File("mock.go", <<"// This file was Generated By mockgen">>)}

NoRecv == [present |-> FALSE, star |-> FALSE, ident |-> FALSE, name |-> ""]

Recv(star, ident, name) == [present |-> TRUE, star |-> star, ident |-> ident, name |-> name]

ResultType(ident, name) == [ident |-> ident, name |-> name]

Decl(kind, Name, hasBody, recv, Results) ==
    [kind |-> kind, Name |-> Name, hasBody |-> hasBody, Recv |-> recv, Results |-> Results]

ErrorT == ResultType(TRUE, "error")

\* the declarations of the fixture package aaa, and the shapes it lacks: a
\* generic receiver, error not last, no results, no body
Decls ==
    {Decl("FuncDecl", "Method", TRUE, Recv(TRUE, TRUE, "Struct"),
          <<ResultType(TRUE, "int"), ErrorT>>),
     Decl("FuncDecl", "MethodWithoutPointer", TRUE, Recv(FALSE, TRUE, "Struct"), <<ErrorT>>),
     Decl("FuncDecl", "method", TRUE, Recv(TRUE, TRUE, "Struct"),
          <<ResultType(TRUE, "string"), ErrorT>>),
     Decl("FuncDecl", "privateFunction", TRUE, NoRecv, <<ErrorT>>),
     Decl("FuncDecl", "PublicFunction", TRUE, NoRecv, <<ErrorT>>),
     Decl("GenDecl", "AnonymFunc", TRUE, NoRecv, <<ErrorT>>),
     Decl("FuncDecl", "PublicFunction3", TRUE, NoRecv, <<ResultType(TRUE, "string")>>),
     Decl("FuncDecl", "Get", TRUE, Recv(TRUE, FALSE, ""), <<ErrorT>>),
     Decl("FuncDecl", "Swapped", TRUE, NoRecv, <<ErrorT, ResultType(TRUE, "int")>>),
     Decl("FuncDecl", "Wrapped", TRUE, NoRecv, <<ResultType(FALSE, "")>>),
     Decl("FuncDecl", "Close", TRUE, NoRecv, <<>>),
     Decl("FuncDecl", "Extern", FALSE, NoRecv, <<ErrorT>>)}

NoDecl == Decl("", "", FALSE, NoRecv, <<>>)

NoFile == File("", <<>>)

Arg(expr, known, kind, val) ==
    [expr |-> expr, Value |-> [known |-> known, kind |-> kind, val |-> val]]

StringLit(str) == Arg(BasicLit(Quote(str)), TRUE, "String", str)

Node(kind, callName, Args) == [kind |-> kind, callName |-> callName, Args |-> Args]

NoNode == Node("", "", <<>>)

\* the first component of a drawn prefix: empty, the package's name, its
\* import path, a tail of its name, another package, or a verb
PkgTokens(p) == {"", p.name, p.path, "aa", "bbb", "%s"}

\* the second and third components: empty, the receiver type of the
\* fixture, the function's own name, the pointer spelling, a broken pointer
\* spelling, another name
NameTokens(fd) == {"", "Struct", fd.Name, "(*Struct)", "(*Struct", "other"}

\* the components after the third
ExtraTokens == {"more"}

\* the token sets of the components 2..n
TokensAt(fd, k) == IF k <= 3 THEN NameTokens(fd) ELSE ExtraTokens

CompSeqs(p, fd, max) ==
    UNION {{<<t>> \o rest : t \in PkgTokens(p),
                            rest \in {r \in [1..(n - 1) -> NameTokens(fd) \cup ExtraTokens] :
                                        \A k \in 1..(n - 1) : r[k] \in TokensAt(fd, k + 1)}} :
             n \in 1..max}

RECURSIVE JoinDots(_)
JoinDots(comps) ==
    IF Len(comps) = 0 THEN ""
    ELSE IF Len(comps) = 1 THEN comps[1]
    ELSE comps[1] \o "." \o JoinDots(Tail(comps))

\* what follows the prefix: with the separator, without it, and with a
\* second separator and an escaped percent sign
Tails == {": error", " - error", ": wrap: 100%% sure"}

Formats(p, fd, max) == {JoinDots(comps) \o tail : comps \in CompSeqs(p, fd, max), tail \in Tails}

\* the operands of a format: one per verb, a constant naming the function
\* (const fn = pkgName + ".Struct" + ".Method") or a variable
Operands(p, fd, format) ==
    IF Contains(format, "%s")
    THEN {<<Arg(Ident("fn"), TRUE, "String", p.name \o ".Struct." \o fd.Name)>>,
          <<Arg(SelectorExpr(Ident("x"), Ident("name")), FALSE, "", "")>>}
    ELSE {<<>>}

\* calls of fmt.Errorf with a constant format
ErrorfCalls(p, fd) ==
    UNION {{Node("CallExpr", "fmt.Errorf", <<StringLit(f)>> \o ops) : ops \in Operands(p, fd, f)} :
             f \in Formats(p, fd, MaxComponents)}

\* calls of errors.New with a constant message (prefixes of one or two
\* components)
NewCalls(p, fd) ==
    {Node("CallExpr", "errors.New", <<StringLit(f)>>) :
        f \in {g \in Formats(p, fd, 2) : ~Contains(g, "%s")}}

\* nodes handleFuncBody does not check: not a call, a call without
\* arguments, a call of another function, a message that is no constant
OtherNodes(p, fd) ==
    {Node("ReturnStmt", "", <<>>),
     Node("CallExpr", "errors.New", <<Arg(Ident("text"), FALSE, "", "")>>),
     Node("CallExpr", "fmt.Errorf", <<Arg(Ident("format"), FALSE, "", ""),
                                       Arg(Ident("input"), FALSE, "", "")>>),
     Node("CallExpr", "fmt.Sprintf", <<StringLit("input too short")>>),
     Node("CallExpr", "err.Error", <<>>),
     Node("CallExpr", "len", <<Arg(Ident("input"), FALSE, "", "")>>)}

Nodes(p, fd) == ErrorfCalls(p, fd) \cup NewCalls(p, fd) \cup OtherNodes(p, fd)

---------------------------------------------------------------------------
(* Bodies.  A node of a body is [pos, node, children]: its source          *)
(* position, the node as handleFuncBody reads it, and the nodes below it   *)
(* in the order ast.Inspect walks them.                                    *)

Tree(pos, n, children) == [pos |-> pos, node |-> n, children |-> children]

NoBody == Tree(0, NoNode, <<>>)

\* a callback of ast.Inspect: the node and its position, NoNode for nil
Callback(pos, n) == [pos |-> pos, node |-> n]

\* ast.Inspect: the callback for the node, the walks of its children, the
\* callback with nil
RECURSIVE Inspect(_)
RECURSIVE InspectList(_, _)
InspectList(children, i) ==
    IF i > Len(children) THEN <<>>
    ELSE Inspect(children[i]) \o InspectList(children, i + 1)

Inspect(tree) ==
    <<Callback(tree.pos, tree.node)>>
        \o InspectList(tree.children, 1)
        \o <<Callback(0, NoNode)>>

\* the messages of the calls in a body: without prefix, with the package
\* prefix, with a receiver token and an empty function token
BodyMessages == {"anonymous function err", "aaa: error", "aaa.Struct.: error"}

\* the calls in a body: errors.New and fmt.Errorf with a constant message,
\* and a call of another function
BodyCalls ==
    {Node("CallExpr", callName, <<StringLit(msg)>>) :
        callName \in {"errors.New", "fmt.Errorf"}, msg \in BodyMessages}
      \cup {Node("CallExpr", "fmt.Sprintf", <<StringLit("input too short")>>)}

\* a function literal with one call in it
FuncLit(pos, call) ==
    Tree(pos, Node("FuncLit", "", <<>>),
         <<Tree(pos + 1, Node("ReturnStmt", "", <<>>), <<Tree(pos + 2, call, <<>>)>>)>>)

\* the body of PublicFunction: a call in a function literal, then a call
\* in the body itself
LiteralThenCall(c1, c2) ==
    Tree(1, Node("BlockStmt", "", <<>>),
         <<FuncLit(2, c1), Tree(5, Node("ReturnStmt", "", <<>>), <<Tree(6, c2, <<>>)>>)>>)

\* a call in a function literal in a function literal
LiteralInLiteral(c1) ==
    Tree(1, Node("BlockStmt", "", <<>>),
         <<Tree(2, Node("FuncLit", "", <<>>), <<FuncLit(3, c1)>>)>>)

Bodies ==
    {LiteralThenCall(c1, c2) : c1 \in BodyCalls, c2 \in BodyCalls}
      \cup {LiteralInLiteral(c1) : c1 \in BodyCalls}

---------------------------------------------------------------------------
(* The state machine.                                                      *)

VARIABLES
    pc,        \* "files": between files; "decls": in the loop over
               \* file.Decls; "body": ast.Inspect is walking funcDecl.Body;
               \* "visited": handleFuncBody has returned for a node;
               \* "done": run has returned; "panic": the process panicked
    debug,     \* var debug
    pkg,       \* pass.Pkg
    file,      \* the file whose declarations are being visited
    funcDecl,  \* the declaration last handed to the loop
    node,      \* the node last handed to handleFuncBody
    result,    \* what that invocation of handleFuncBody did
    emitted,   \* the diagnostics that invocation gave to pass.Reportf
    body,      \* funcDecl.Body as a tree of nodes
    todo,      \* the callbacks ast.Inspect has still to make, in order
    seen       \* the callbacks it has made for funcDecl

vars == <<pc, debug, pkg, file, funcDecl, node, result, emitted, body, todo, seen>>

NoResult == notChecked

Init ==
    /\ pc = "files"
    /\ debug \in DebugValues
    /\ pkg \in Packages
    /\ file = NoFile
    /\ funcDecl = NoDecl
    /\ node = NoNode
    /\ result = NoResult
    /\ emitted = <<>>
    /\ body = NoBody
    /\ todo = <<>>
    /\ seen = <<>>

\* run returns at once for a main-like package
RunMainLike ==
    /\ pc = "files"
    /\ IsMainLike(pkg)
    /\ pc' = "done"
    /\ UNCHANGED <<body, todo, seen, debug, pkg, file, funcDecl, node, result, emitted>>

\* the Preorder callback for one file: generated and test files are left
\* alone, the declarations of any other file are visited
VisitFile ==
    /\ pc = "files"
    /\ ~IsMainLike(pkg)
    /\ \E f \in Files :
          /\ file' = f
          /\ pc' = IF isGenerated(f) \/ isTest(f) THEN "files" ELSE "decls"
    /\ UNCHANGED <<body, todo, seen, debug, pkg, funcDecl, node, result, emitted>>

\* one iteration of the loop over file.Decls, with handleFuncDecl up to the
\* call of ast.Inspect
HandleFuncDecl ==
    /\ pc = "decls"
    /\ \E d \in Decls :
          /\ funcDecl' = d
          /\ pc' = IF d.kind = "FuncDecl" /\ inspectsBody(d) THEN "body" ELSE "decls"
    /\ UNCHANGED <<body, todo, seen, debug, pkg, file, node, result, emitted>>

RECURSIVE reportAll(_, _, _, _)
reportAll(reports, n, p, parentFunc) ==
    IF Len(reports) = 0 THEN <<>>
    ELSE <<Reportf(n, reportMsg(reports[1], p, parentFunc))>>
            \o reportAll(Tail(reports), n, p, parentFunc)

\* r is what handleFuncBody does for node n
Visit(n, r) ==
    /\ node' = n
    /\ result' = r
    /\ emitted' = reportAll(r.reports, n, pkg, funcDecl)
    /\ pc' = IF r.panics THEN "panic" ELSE "visited"

\* ast.Inspect hands the next node of the body to handleFuncBody
HandleFuncBody ==
    /\ pc = "body"
    /\ \E n \in Nodes(pkg, funcDecl) : Visit(n, handleFuncBody(pkg, funcDecl, n, debug))
    /\ UNCHANGED <<body, todo, seen, debug, pkg, file, funcDecl>>

\* the callback returns true: ast.Inspect goes on to the next node
InspectNext ==
    /\ pc = "visited"
    /\ pc' = "body"
    /\ node' = NoNode
    /\ result' = NoResult
    /\ emitted' = <<>>
    /\ UNCHANGED <<body, todo, seen, debug, pkg, file, funcDecl>>

\* ast.Inspect has walked the whole body
EndFuncDecl ==
    /\ pc = "body"
    /\ pc' = "decls"
    /\ UNCHANGED <<body, todo, seen, debug, pkg, file, funcDecl, node, result, emitted>>

\* the loop over file.Decls ends
EndFile ==
    /\ pc = "decls"
    /\ pc' = "files"
    /\ funcDecl' = NoDecl
    /\ UNCHANGED <<body, todo, seen, debug, pkg, file, node, result, emitted>>

\* Preorder has visited every file
EndRun ==
    /\ pc = "files"
    /\ ~IsMainLike(pkg)
    /\ pc' = "done"
    /\ file' = NoFile
    /\ UNCHANGED <<body, todo, seen, debug, pkg, funcDecl, node, result, emitted>>

Next ==
    \/ RunMainLike
    \/ VisitFile
    \/ HandleFuncDecl
    \/ HandleFuncBody
    \/ InspectNext
    \/ EndFuncDecl
    \/ EndFile
    \/ EndRun

Spec == Init /\ [][Next]_vars

---------------------------------------------------------------------------
(* location.match as a function of its inputs: the locations are drawn     *)
(* from the tokens, with and without the pointer flag, and matched against *)
(* each declaration whose body handleFuncDecl inspects.                    *)

Locations(p, fd) ==
    {location(t, r, f, b) : t \in PkgTokens(p), r \in NameTokens(fd), f \in NameTokens(fd),
                            b \in BOOLEAN}

InitMatch ==
    /\ pc = "match"
    /\ debug \in DebugValues
    /\ pkg \in {p \in Packages : ~IsMainLike(p)}
    /\ file = NoFile
    /\ funcDecl \in {d \in Decls : d.kind = "FuncDecl" /\ inspectsBody(d)}
    /\ node = NoNode
    /\ result = NoResult
    /\ emitted = <<>>
    /\ body = NoBody
    /\ todo = <<>>
    /\ seen = <<>>

Matched(loc, m) ==
    result' = handled(FALSE, "", NoErr, loc, TRUE, m, onParsed(m),
                      m.unreachable /\ isDebug(debug))

MatchLocation ==
    /\ pc = "match"
    /\ \E loc \in Locations(pkg, funcDecl) : Matched(loc, match(loc, pkg, funcDecl))
    /\ pc' = "matched"
    /\ UNCHANGED <<body, todo, seen, debug, pkg, file, funcDecl, node, emitted>>

NextMatch == MatchLocation

SpecMatch == InitMatch /\ [][NextMatch]_vars

---------------------------------------------------------------------------
(* The walk of one body: the loop over file.Decls of a file that is        *)
(* neither generated nor a test, each declaration with a body drawn from   *)
(* Bodies, and ast.Inspect handing the nodes of the body, one callback at  *)
(* a time, to handleFuncBody.                                              *)

InitInspect ==
    /\ pc = "decls"
    /\ debug \in DebugValues
    /\ pkg \in {p \in Packages : ~IsMainLike(p)}
    /\ file \in {f \in Files : ~isGenerated(f) /\ ~isTest(f)}
    /\ funcDecl = NoDecl
    /\ node = NoNode
    /\ result = NoResult
    /\ emitted = <<>>
    /\ body = NoBody
    /\ todo = <<>>
    /\ seen = <<>>

\* one iteration of the loop over file.Decls: handleFuncDecl is called for
\* a FuncDecl only, and calls ast.Inspect if it inspects the body
InspectFuncDecl ==
    /\ pc \in {"decls", "declDone"}
    /\ \E d \in Decls :
          \E b \in IF d.hasBody THEN Bodies ELSE {NoBody} :
              /\ funcDecl' = d
              /\ body' = b
              /\ todo' = IF d.kind = "FuncDecl" /\ inspectsBody(d) THEN Inspect(b) ELSE <<>>
              /\ pc' = IF d.kind = "FuncDecl" /\ inspectsBody(d) THEN "inspect" ELSE "declDone"
    /\ seen' = <<>>
    /\ node' = NoNode
    /\ result' = NoResult
    /\ emitted' = <<>>
    /\ UNCHANGED <<debug, pkg, file>>

\* what the callback does with the node c: handleFuncBody with funcDecl as
\* parentFunc, and true returned unless it panicked
Inspected(c, r) ==
    /\ Visit(c.node, r)
    /\ seen' = Append(seen, [pos |-> c.pos, parentFunc |-> funcDecl, checked |-> r.checked])
    /\ todo' = Tail(todo)

InspectNode ==
    /\ pc \in {"inspect", "visited"}
    /\ todo # <<>>
    /\ Inspected(Head(todo), handleFuncBody(pkg, funcDecl, Head(todo).node, debug))
    /\ UNCHANGED <<debug, pkg, file, funcDecl, body>>

\* ast.Inspect returns
InspectDone ==
    /\ pc \in {"inspect", "visited"}
    /\ todo = <<>>
    /\ pc' = "declDone"
    /\ UNCHANGED <<debug, pkg, file, funcDecl, node, result, emitted, body, todo, seen>>

NextInspect ==
    \/ InspectFuncDecl
    \/ InspectNode
    \/ InspectDone

SpecInspect == InitInspect /\ [][NextInspect]_vars

---------------------------------------------------------------------------
(* The properties.                                                         *)

\* handleFuncBody has run on a call it checks
Handled == pc \in {"visited", "panic"} /\ result.checked

\* the text before the first ": " of a message that has one
PrefixText(msg) == SubSeq(msg, 1, Index(msg, ": "))

\* all the dot-separated components of that text
Components(msg) == SplitN(PrefixText(msg), ".", -1)

\* the text before the first "." of the prefix
PkgToken(msg) == Components(msg)[1]

Reported(kind) == Len(result.reports) = 1 /\ result.reports[1].errType = kind

NoPrefixText(prefixes) ==
    diagnosticMessage
        \o ": Consider starting message with one of the following strings: "
        \o joinQuoted(prefixes, 1)

\* C1: a checked message that starts with one of the prefixes errorPrefixes
\* returns for the enclosing function is parsed without error, matches the
\* function and gets no diagnostic.
C1_RoundTrip ==
    Handled =>
        \A i \in 1..Len(errorPrefixes(pkg, funcDecl)) :
            HasPrefix(result.errorMessage, errorPrefixes(pkg, funcDecl)[i]) =>
                /\ result.err = NoErr
                /\ result.matchCalled /\ result.m.isNil
                /\ emitted = <<>>

\* C2: a checked call whose evaluated message has no ": " is reported as
\* NoPrefix, with one diagnostic that lists the prefixes of the enclosing
\* function; for PublicFunction of package aaa these are "aaa: " and
\* "aaa.PublicFunction: ".
C2_NoSeparatorNoPrefix ==
    (Handled /\ ~Contains(result.errorMessage, ": ")) =>
        /\ Reported(errNoPrefix)
        /\ Len(emitted) = 1
        /\ emitted[1].node = node
        /\ emitted[1].msg = NoPrefixText(errorPrefixes(pkg, funcDecl))
        /\ (pkg.name = "aaa" /\ funcDecl.Name = "PublicFunction") =>
              emitted[1].msg =
                 "Error message must point to the place where it had happened: Consider starting message with one of the following strings: \"aaa: \", \"aaa.PublicFunction: \""

C2_Witness ==
    /\ Handled
    /\ ~Contains(result.errorMessage, ": ")
    /\ funcDecl.Name = "PublicFunction"
    /\ Reported(errNoPrefix)
    /\ Len(emitted) = 1

\* the case of C3: a checked message with a prefix whose package token is
\* not a suffix of the import path
C3_Case ==
    /\ Handled
    /\ Contains(result.errorMessage, ": ")
    /\ ~HasSuffix(pkg.path, PkgToken(result.errorMessage))

\* C3 as stated: whenever the package token of the prefix is not a suffix
\* of the import path, the call is reported as PackageMismatch, whatever
\* the rest of the prefix.
C3_Original == C3_Case => Reported(errPackageMismatch)

\* C3 amended: when the package token is not a suffix of the import path,
\* a prefix parsePrefix accepts is reported as PackageMismatch (got the
\* token, expected the package name), and a prefix parsePrefix rejects with
\* InvalidSyntax is reported as NoPrefix.
C3_Amended ==
    C3_Case =>
        /\ result.err \in {NoErr, errInvalidSyntax}
        /\ result.err = NoErr =>
              /\ Reported(errPackageMismatch)
              /\ result.reports[1].got = PkgToken(result.errorMessage)
              /\ result.reports[1].expect = pkg.name
              /\ Len(emitted) = 1
              /\ emitted[1].msg = diagnosticMessage \o ": package name mismatch"
        /\ result.err = errInvalidSyntax =>
              /\ Reported(errNoPrefix)
              /\ Len(emitted) = 1
              /\ emitted[1].msg = NoPrefixText(errorPrefixes(pkg, funcDecl))

C3_Witness ==
    /\ C3_Case
    /\ Len(Components(result.errorMessage)) = 3
    /\ result.err = NoErr
    /\ Reported(errPackageMismatch)

\* the case of C4: location.match has run on a location whose package token
\* passes and whose receiver and function tokens are those of the function
C4_Case ==
    /\ pc = "matched"
    /\ result.prefix.pkg # ""
    /\ HasSuffix(pkg.path, result.prefix.pkg)
    /\ funcDecl.Recv.present /\ funcDecl.Recv.ident
    /\ result.prefix.recv = funcDecl.Recv.name
    /\ result.prefix.fn = funcDecl.Name

C5_PrefixList ==
    (pc \in {"body", "visited", "panic"} /\ (~funcDecl.Recv.present \/ funcDecl.Recv.ident)) =>
        /\ ~funcDecl.Recv.present =>
              errorPrefixes(pkg, funcDecl)
                 = <<pkg.name \o ": ", pkg.name \o "." \o funcDecl.Name \o ": ">>
        /\ (funcDecl.Recv.present /\ funcDecl.Recv.star) =>
              errorPrefixes(pkg, funcDecl)
                 = <<pkg.name \o ": ",
                     pkg.name \o "." \o funcDecl.Recv.name \o "." \o funcDecl.Name \o ": ",
                     pkg.name \o ".(*" \o funcDecl.Recv.name \o ")." \o funcDecl.Name \o ": ",
                     pkg.name \o "." \o funcDecl.Recv.name \o ": ">>
        /\ (pkg.name = "aaa" /\ funcDecl.Name = "Method") =>
              errorPrefixes(pkg, funcDecl)
                 = <<"aaa: ", "aaa.Struct.Method: ", "aaa.(*Struct).Method: ", "aaa.Struct: ">>
        /\ \A i, j \in 1..Len(errorPrefixes(pkg, funcDecl)) :
              i # j => errorPrefixes(pkg, funcDecl)[i] # errorPrefixes(pkg, funcDecl)[j]
        /\ Len(errorPrefixes(pkg, funcDecl)) > 0
        /\ errorPrefixes(pkg, funcDecl)[1] = pkg.name \o ": "
        /\ (Handled /\ Reported(errNoPrefix)) =>
              /\ Len(emitted) = 1
              /\ emitted[1].msg = NoPrefixText(errorPrefixes(pkg, funcDecl))

C5_Witness ==
    /\ Handled
    /\ Reported(errNoPrefix)
    /\ funcDecl.Name = "Method"
    /\ Len(emitted) = 1
    /\ emitted[1].msg =
          "Error message must point to the place where it had happened: Consider starting message with one of the following strings: \"aaa: \", \"aaa.Struct.Method: \", \"aaa.(*Struct).Method: \", \"aaa.Struct: \""

\* the declaration is an exported function declaration with a body whose
\* last result is the identifier error
C6_Inspectable ==
    /\ funcDecl.kind = "FuncDecl"
    /\ funcDecl.hasBody
    /\ Char(funcDecl.Name, 1) \in UpperLetters
    /\ Len(funcDecl.Results) > 0
    /\ funcDecl.Results[Len(funcDecl.Results)] = [ident |-> TRUE, name |-> "error"]

\* C6: a diagnostic is emitted only for a call of errors.New or fmt.Errorf
\* whose first argument is a string constant, in the body of an exported
\* declaration whose last result is error; the body of no other declaration
\* is walked.
C6_OnlyCheckedCalls ==
    /\ pc \in {"body", "visited", "panic"} => C6_Inspectable
    /\ Len(emitted) > 0 =>
          /\ C6_Inspectable
          /\ node.kind = "CallExpr"
          /\ node.callName \in {"errors.New", "fmt.Errorf"}
          /\ Len(node.Args) > 0
          /\ node.Args[1].Value.known
          /\ node.Args[1].Value.kind = "String"

C6_Witness ==
    /\ pc = "visited"
    /\ Len(emitted) = 1
    /\ node.callName = "errors.New"
    /\ funcDecl.Name = "PublicFunction"

\* C7: for every checked call handleFuncBody reaches one outcome, success
\* or one mismatch kind: it does not panic, location.match does not leave
\* through its tail, at most one error is reported, and there is one
\* diagnostic per reported error.
C7_TotalSingleValued ==
    Handled =>
        /\ ~result.panics
        /\ ~(result.matchCalled /\ result.m.unreachable)
        /\ Len(result.reports) <= 1
        /\ Len(emitted) = Len(result.reports)

\* C8: the text of a diagnostic for a kind other than NoPrefix holds the
\* lead-in, the kind and the got and expected values location.match
\* computed; the text for NoPrefix is the lead-in and the list of prefixes.
C8_TextNamesGotExpected ==
    (pc = "visited" /\ Len(emitted) = 1 /\ Len(result.reports) = 1) =>
        IF result.reports[1].errType = errNoPrefix
        THEN emitted[1].msg = NoPrefixText(errorPrefixes(pkg, funcDecl))
        ELSE /\ HasPrefix(emitted[1].msg, diagnosticMessage)
             /\ Contains(emitted[1].msg, result.reports[1].errType)
             /\ result.matchCalled /\ ~result.m.isNil =>
                   /\ Contains(emitted[1].msg, result.m.got)
                   /\ Contains(emitted[1].msg, result.m.expect)

\* the case of C9: parsePrefix returned InvalidSyntax for a checked message
C9_Case == Handled /\ result.err = errInvalidSyntax

\* whether the partial location parsePrefix returned matches the function
C9_PartialMatches == match(parsePrefix(result.errorMessage).loc, pkg, funcDecl).isNil

\* C9 as stated: the call is reported as NoPrefix if the partial location
\* matches the function and as InvalidSyntax if it does not.
C9_Original ==
    C9_Case =>
        IF C9_PartialMatches THEN Reported(errNoPrefix) ELSE Reported(errInvalidSyntax)

\* C9 amended: the call is reported as InvalidSyntax if the partial
\* location matches the function and as NoPrefix if it does not;
\* "aaa.(*Struct.Method: error" in (*Struct).Method is reported as NoPrefix.
\* A debug build panics instead when match leaves through its tail.
C9_Amended ==
    C9_Case =>
        /\ result.panics <=>
              (isDebug(debug) /\ match(parsePrefix(result.errorMessage).loc, pkg, funcDecl).unreachable)
        /\ result.panics => emitted = <<>>
        /\ ~result.panics =>
              /\ Len(emitted) = 1
              /\ IF C9_PartialMatches
                 THEN /\ Reported(errInvalidSyntax)
                      /\ emitted[1].msg = diagnosticMessage \o ": syntax is wrong"
                 ELSE /\ Reported(errNoPrefix)
                      /\ emitted[1].msg = NoPrefixText(errorPrefixes(pkg, funcDecl))
        /\ (result.errorMessage = "aaa.(*Struct.Method: error" /\ funcDecl.Name = "Method") =>
              Reported(errNoPrefix)

C9_Witness ==
    /\ C9_Case
    /\ result.errorMessage = "aaa.(*Struct.Method: error"
    /\ funcDecl.Name = "Method"
    /\ pkg.path = "m/aaa"
    /\ ~C9_PartialMatches
    /\ Reported(errNoPrefix)

\* the prefix of the message is pkg.(*Name).fn, Name and fn identifiers
C10_Case ==
    /\ Handled
    /\ Contains(result.errorMessage, ": ")
    /\ Len(Components(result.errorMessage)) = 3
    /\ Components(result.errorMessage)[1] # ""
    /\ HasPrefix(Components(result.errorMessage)[2], "(*")
    /\ HasSuffix(Components(result.errorMessage)[2], ")")
    /\ IsIdentifier(SubSeq(Components(result.errorMessage)[2], 3,
                           Len(Components(result.errorMessage)[2]) - 1))
    /\ IsIdentifier(Components(result.errorMessage)[3])

\* C10: for a prefix pkg.(*Name).fn parsePrefix returns no error and the
\* location with recv = Name, fn = fn and isRecvPtr = true.
C10_PointerFormParses ==
    C10_Case =>
        /\ result.err = NoErr
        /\ result.prefix =
              location(Components(result.errorMessage)[1],
                       SubSeq(Components(result.errorMessage)[2], 3,
                              Len(Components(result.errorMessage)[2]) - 1),
                       Components(result.errorMessage)[3], TRUE)

\* the name of the receiver type as location.match compares it: the type
\* identifier of the receiver, "" without a receiver or for another type
ReceiverTypeName ==
    IF funcDecl.Recv.present /\ funcDecl.Recv.ident THEN funcDecl.Recv.name ELSE ""

\* the case of C11: parsePrefix accepted the prefix of a checked message and
\* its package token passes the package check
C11_Case ==
    /\ Handled
    /\ result.err = NoErr
    /\ result.matchCalled
    /\ result.prefix.pkg # ""
    /\ HasSuffix(pkg.path, result.prefix.pkg)

\* C11: for an accepted prefix whose package token passes, location.match
\* returns, with a function token only, success if the token is the
\* function's name or its receiver type's name and FuncNotFound (expected
\* "<functionName> or <receiverName>") otherwise; with receiver and function
\* tokens, MethodNotFound (got the function token) if only the receiver
\* matches, ReceiverNotFound (got the receiver token) if only the function
\* matches, MethodNotFound (got "recv.fn", expected
\* "<receiverName>.<functionName>") if neither matches.
C11_NameTable ==
    C11_Case =>
        /\ (result.prefix.recv = "" /\ result.prefix.fn # "") =>
              IF result.prefix.fn = funcDecl.Name \/ result.prefix.fn = ReceiverTypeName
              THEN result.m.isNil /\ ~result.m.unreachable
              ELSE /\ ~result.m.isNil
                   /\ result.m.errType = errFuncNotFound
                   /\ result.m.got = result.prefix.fn
                   /\ result.m.expect = funcDecl.Name \o " or " \o ReceiverTypeName
        /\ (/\ result.prefix.recv # "" /\ result.prefix.fn # ""
            /\ result.prefix.recv = ReceiverTypeName
            /\ result.prefix.fn # funcDecl.Name) =>
              /\ ~result.m.isNil
              /\ result.m.errType = errMethodNotFound
              /\ result.m.got = result.prefix.fn
              /\ result.m.expect = funcDecl.Name
        /\ (/\ result.prefix.recv # "" /\ result.prefix.fn # ""
            /\ result.prefix.recv # ReceiverTypeName
            /\ result.prefix.fn = funcDecl.Name) =>
              /\ ~result.m.isNil
              /\ result.m.errType = errRecieverNotFound
              /\ result.m.got = result.prefix.recv
              /\ result.m.expect = ReceiverTypeName
        /\ (/\ result.prefix.recv # "" /\ result.prefix.fn # ""
            /\ result.prefix.recv # ReceiverTypeName
            /\ result.prefix.fn # funcDecl.Name) =>
              /\ ~result.m.isNil
              /\ result.m.errType = errMethodNotFound
              /\ result.m.got = result.prefix.recv \o "." \o result.prefix.fn
              /\ result.m.expect = ReceiverTypeName \o "." \o funcDecl.Name

C11_Witness ==
    /\ C11_Case
    /\ funcDecl.Name = "Method"
    /\ result.prefix.recv = "other"
    /\ result.prefix.fn = "other"
    /\ result.m.errType = errMethodNotFound
    /\ result.m.got = "other.other"
    /\ result.m.expect = "Struct.Method"

\* the positions of the calls of errors.New and fmt.Errorf in a tree,
\* function literals included
RECURSIVE ErrorCallsIn(_)
RECURSIVE ErrorCallsInList(_, _)
ErrorCallsInList(children, i) ==
    IF i > Len(children) THEN {}
    ELSE ErrorCallsIn(children[i]) \cup ErrorCallsInList(children, i + 1)

ErrorCallsIn(tree) ==
    (IF tree.node.kind = "CallExpr" /\ tree.node.callName \in {"errors.New", "fmt.Errorf"}
     THEN {tree.pos} ELSE {})
        \cup ErrorCallsInList(tree.children, 1)

\* the callbacks made so far for the node at a position
SeenAt(pos) == {i \in 1..Len(seen) : seen[i].pos = pos}

\* every call of errors.New or fmt.Errorf of the body was handed to
\* handleFuncBody once, with funcDecl as parentFunc, and was checked
EveryCallCheckedOnce ==
    \A pos \in ErrorCallsIn(body) :
        /\ Cardinality(SeenAt(pos)) = 1
        /\ \A i \in SeenAt(pos) : seen[i].parentFunc = funcDecl /\ seen[i].checked

\* the loop over file.Decls is through with funcDecl, or the process
\* panicked on the way
C12_Case == pc \in {"declDone", "panic"} /\ funcDecl # NoDecl /\ funcDecl.hasBody

\* C12: once run is through with a declaration, every call of errors.New or
\* fmt.Errorf in the body of an exported function declaration whose last
\* result is error, calls in function literals included, has been checked
\* exactly once against that declaration; no node of a function literal
\* assigned to a package-level variable has been handed to handleFuncBody.
C12_BodyWalkedOnce ==
    C12_Case =>
        /\ (funcDecl.kind = "FuncDecl" /\ IsExported(funcDecl.Name) /\ isReturnsError(funcDecl))
              => EveryCallCheckedOnce
        /\ funcDecl.kind = "GenDecl" => seen = <<>>

\* the same without the panic of a debug build: ast.Inspect returned
BodyWalkedOnce ==
    (pc = "declDone" /\ funcDecl # NoDecl /\ funcDecl.hasBody) =>
        /\ (funcDecl.kind = "FuncDecl" /\ IsExported(funcDecl.Name) /\ isReturnsError(funcDecl))
              => EveryCallCheckedOnce
        /\ funcDecl.kind = "GenDecl" => seen = <<>>

\* C13: location.match does not leave through its final fallthrough for a
\* location parsePrefix returned, with or without an error; a prefix with
\* a receiver token and an empty function token is not taken as a match.
C13_TailNotReached ==
    (Handled /\ result.matchCalled) =>
        /\ ~result.m.unreachable
        /\ (result.prefix.recv # "" /\ result.prefix.fn = "") => ~result.m.isNil

\* the token names the package: it is the package's name, or the import
\* path from the start of one of its segments to its end
NamesPackage(token, p) ==
    \/ token = p.name
    \/ /\ HasSuffix(p.path, token)
       /\ Char(token, 1) # "/"
       /\ \/ Len(token) = Len(p.path)
          \/ Char(p.path, Len(p.path) - Len(token)) = "/"

\* the case of C14: location.match has run on the location of a checked
\* message with a package token
C14_Case == Handled /\ result.matchCalled /\ result.prefix.pkg # ""

\* C14: location.match returns PackageMismatch for a package token that
\* does not name the package, such as a tail of the last segment of the
\* import path ("aa" for a path that ends with "aaa").
C14_TokenNamesPackage ==
    (C14_Case /\ ~NamesPackage(result.prefix.pkg, pkg)) =>
        ~result.m.isNil /\ result.m.errType = errPackageMismatch

====
